---- MODULE Spec2Model ----
(***************************************************************************)
(* Model of the llm_translate script translator: the retrying generation   *)
(* wrapper (src/src/llm_workflow.py), the translate-then-edit pipeline     *)
(* (src/src/translate_workflow.py), the KAG context builder                *)
(* (src/src/kag_workflow.py) and the line-by-line file orchestrator        *)
(* (src/src/file_workflow.py).                                             *)
(*                                                                         *)
(* A Python str is a sequence of tokens.  A token is a one-character       *)
(* string, or a fixed literal fragment of a prompt/context template        *)
(* (written in ASCII transliteration) that contains no whitespace at its   *)
(* ends and is never split.                                                *)
(***************************************************************************)
EXTENDS Integers, Sequences, FiniteSets, TLC

\* ---------------------------------------------------------------- bounds
MaxTextLen == 3        \* longest text the model's decoder returns
MaxLines == 2          \* longest input file, in lines
MaxRetryCount == 3     \* largest retry_count handed to generate_with_retry
MaxKagLen == 10        \* longest script handed to build_context
MaxWindow == 4         \* largest half-window of the context builder

\* ------------------------------------------------------ program constants
DefaultRetryCount == 10
DefaultWindowSize == 4

NL == "\n"
CR == "\r"
SP == " "

\* characters the decoded model text is made of
Chars == {"a", SP, NL, CR}

\* str.isspace() on one character
IsSpace(c) == c \in {SP, NL, CR, "\t"}

\* characters that end a line when the written file is read back
IsLineBreak(c) == c \in {NL, CR}

\* ------------------------------------------------------- string helpers
RECURSIVE lstrip(_)
lstrip(s) == IF s = <<>> THEN <<>>
             ELSE IF IsSpace(Head(s)) THEN lstrip(Tail(s)) ELSE s

RECURSIVE rstrip(_)
rstrip(s) == IF s = <<>> THEN <<>>
             ELSE IF IsSpace(s[Len(s)]) THEN rstrip(SubSeq(s, 1, Len(s) - 1)) ELSE s

\* str.strip()
strip(s) == rstrip(lstrip(s))

\* str.split("\n")[0]: the content before the first "\n"
RECURSIVE split_first(_)
split_first(s) == IF s = <<>> THEN <<>>
                  ELSE IF Head(s) = NL THEN <<>>
                  ELSE <<Head(s)>> \o split_first(Tail(s))

\* "".join(list_of_str)
RECURSIVE join(_)
join(ls) == IF ls = <<>> THEN <<>> ELSE Head(ls) \o join(Tail(ls))

\* sub in s (substring test)
Contains(s, sub) ==
    \E k \in 0..(Len(s) - Len(sub)) : SubSeq(s, k + 1, k + Len(sub)) = sub

AllSpace(s) == \A k \in 1..Len(s) : IsSpace(s[k])

TextsUpTo(n) == UNION {[1..m -> Chars] : m \in 0..n}

\* every text tokenizer.decode may hand back
RawTexts == TextsUpTo(MaxTextLen)

Sentinel == <<"n","o",SP,"r","e","s","p","o","n","s","e",SP,"f","r","o","m",SP,"l","l","m">>


\* ------------------------------------------------------------- state
VARIABLES
    input_lines,      \* what f.readlines() returns for the input file
    all_lines,        \* file_data["all_lines"]
    line_num,         \* 0-based index of the line being processed
    result,           \* the list built by _segregate_and_translate_lines
    output,           \* the output file as this run leaves it
    pc,               \* position of the run
    kag_enabled,      \* FileWorkflow.kag_enabled
    window_size,      \* KagWorkflow.window_size
    kag_db,           \* KagWorkflow.kag_db (speaker database)
    names_map,        \* KagWorkflow.names_map, as the ordered list of its items
    context,          \* the context blob handed to run_translate
    text_around,      \* local of build_context
    kag_description,  \* local of build_context
    resp_name,        \* label of the running generate_with_retry call
    prompt,           \* its prompt
    i,                \* its loop index
    retry_count,      \* its retry_count
    response,         \* its local response
    ret,              \* the value it returned
    raw_translation,  \* local of _translate_with_llm
    stages,           \* the generate_with_retry calls started for the current line
    log,              \* the "<resp_name>: <response>" lines printed so far
    calls,            \* number of generate_response calls issued so far
    decoded           \* the text the generation stub handed back at the last call

vars == <<input_lines, all_lines, line_num, result, output, pc, kag_enabled,
          window_size, kag_db, names_map, context, text_around, kag_description,
          resp_name, prompt, i, retry_count, response, ret, raw_translation,
          stages, log, calls, decoded>>

fileVars == <<input_lines, all_lines, line_num, result, output>>
kagVars == <<kag_enabled, window_size, kag_db, names_map>>
ctxVars == <<context, text_around, kag_description>>

\* -------------------------------------------------- llm_workflow.py
\* faulty variant: the decoded text is handed on without .strip()
generate_response_unstripped(text) == text

\* generate_response: the decoded text, stripped
generate_response(text) == strip(text)

\* the rest of line 97: .split("\n")[0].strip()
first_line(text) == strip(split_first(text))

\* faulty variant: the test of the response is inverted
truthy_inverted(s) == s = <<>>

\* `if response:`
truthy(s) == s # <<>>

\* f"Popytka nomer {i+1}\n{prompt}": the attempt marker is put in front
attempt_prompt(n, p) == [p EXCEPT !.marks = <<n + 1>> \o @]

PlainPrompt(line) == [template |-> "plain", context |-> <<>>, line |-> line, marks |-> <<>>]

\* one pass of the loop body of generate_with_retry, r being the response of
\* line 97 (the model's text, stripped, cut to its first line and stripped)
retry_body(r) ==
    /\ pc = "retry"
    /\ i < retry_count
    /\ response' = r
    /\ log' = Append(log, <<resp_name, r>>)
    /\ calls' = calls + 1
    /\ IF truthy(r)
       THEN /\ ret' = r
            /\ pc' = "returned"
            /\ UNCHANGED <<prompt, i>>
       ELSE /\ prompt' = attempt_prompt(i, prompt)
            /\ i' = i + 1
            /\ UNCHANGED <<ret, pc>>
    /\ UNCHANGED <<fileVars, kagVars, ctxVars, resp_name, retry_count, raw_translation, stages>>

\* faulty variant: on exhaustion the last response is returned, not the sentinel
exhausted_returns_response ==
    /\ pc = "retry"
    /\ i >= retry_count
    /\ ret' = response
    /\ pc' = "returned"
    /\ UNCHANGED <<fileVars, kagVars, ctxVars, resp_name, prompt, i, retry_count,
                   response, raw_translation, stages, log, calls, decoded>>

\* range(retry_count) is used up: the fixed sentinel is returned
generate_with_retry_exhausted ==
    /\ pc = "retry"
    /\ i >= retry_count
    /\ ret' = Sentinel
    /\ pc' = "returned"
    /\ UNCHANGED <<fileVars, kagVars, ctxVars, resp_name, prompt, i, retry_count,
                   response, raw_translation, stages, log, calls, decoded>>

\* llm.generate raises: nothing catches it, the exception leaves every caller
generate_raises ==
    /\ pc = "retry"
    /\ i < retry_count
    /\ calls' = calls + 1
    /\ pc' = "raised"
    /\ UNCHANGED <<fileVars, kagVars, ctxVars, resp_name, prompt, i, retry_count,
                   response, ret, raw_translation, stages, log, decoded>>

\* the loop body driven by a stub that remembers the text it handed back
generate_with_retry_stubbed ==
    \E text \in RawTexts :
        retry_body(first_line(generate_response(text))) /\ decoded' = text

\* every response line 97 can compute from a text of the model
Responses == {first_line(generate_response(text)) : text \in RawTexts}

\* the loop body inside a file run: the model hands back any text of RawTexts
generate_with_retry_attempt ==
    \E r \in Responses : retry_body(r) /\ UNCHANGED decoded

\* ------------------------------------------------ generate_with_retry alone
StubPrompts == {PlainPrompt(<<"a">>), PlainPrompt(<<>>)}

NoDb == [k \in {} |-> <<>>]

InitRetry ==
    /\ input_lines = <<>> /\ all_lines = <<>> /\ line_num = 0 /\ result = <<>>
    /\ output = [exists |-> FALSE, lines |-> <<>>]
    /\ kag_enabled = FALSE /\ window_size = DefaultWindowSize
    /\ kag_db = NoDb /\ names_map = <<>>
    /\ context = <<>> /\ text_around = <<>> /\ kag_description = <<>>
    /\ resp_name = "llm_response"
    /\ prompt \in StubPrompts
    /\ i = 0
    /\ retry_count \in 0..MaxRetryCount
    /\ response = <<>> /\ ret = <<>> /\ raw_translation = <<>> /\ stages = <<>>
    /\ log = <<>> /\ calls = 0 /\ decoded = <<>>
    /\ pc = "retry"

NextRetry ==
    \/ generate_with_retry_stubbed
    \/ generate_with_retry_exhausted
    \/ generate_raises

SpecRetry == InitRetry /\ [][NextRetry]_vars


\* -------------------------------------------------- kag_workflow.py
Min(a, b) == IF a < b THEN a ELSE b
Max(a, b) == IF a > b THEN a ELSE b

\* Python's seq[a:b] (a, b 0-based, negative counted from the end, clamped)
PySlice(seq, a, b) ==
    LET n == Len(seq)
        clamp(x) == IF x < 0 THEN Max(x + n, 0) ELSE Min(x, n)
    IN SubSeq(seq, clamp(a) + 1, clamp(b))

SceneHeader == <<"Kontekst sceny:", NL>>
NamesHeader == <<NL, "Slovar' imyon:", NL>>
SpeakerHeader == <<NL, "Opisanie govoryashchego:", SP>>
Narration == <<"ne pryamaya rech', opisanie mira vokrug ili deystviy personazhey">>

\* faulty variant: the window's end leaves out the + 1
window_end_exclusive(lines, idx, w) == Min(Len(lines), idx + w)

window_start(idx, w) == Max(0, idx - w)
window_end(lines, idx, w) == Min(Len(lines), idx + w + 1)

_build_context_text_around(lines, idx, w) ==
    SceneHeader \o join(PySlice(lines, window_start(idx, w), window_end(lines, idx, w)))

\* "\n".join(f"{jp} = {ru}" ...) over the entries kept, in the map's order
RECURSIVE names_block(_)
names_block(items) ==
    IF items = <<>> THEN <<>>
    ELSE Head(items)[1] \o <<SP, "=", SP>> \o Head(items)[2]
         \o (IF Len(items) > 1 THEN <<NL>> ELSE <<>>) \o names_block(Tail(items))

_build_context_names_dict(nmap, search_line) ==
    LET relevant_names == SelectSeq(nmap, LAMBDA e : Contains(search_line, e[1])) IN
    IF relevant_names = <<>> THEN <<>>
    ELSE NamesHeader \o names_block(relevant_names) \o <<NL>>

\* the key looked up in the speaker database
speaker_key(lines, idx) == IF idx > 0 THEN strip(lines[idx]) ELSE <<>>

_build_context_kag_description(db, prev_line) ==
    IF prev_line \in DOMAIN db
    THEN <<"pryamaya rech',", SP>> \o db[prev_line].description
         \o <<",", SP, "pol:", SP>> \o db[prev_line].gender
    ELSE Narration

\* `if not text_around: return ""`, else the three sections
context_blob(around, names, description) ==
    IF around = <<>> THEN <<>>
    ELSE <<NL>> \o around \o names \o SpeakerHeader \o description \o <<NL>>

\* all_lines[line_num] of line 44 raises IndexError when the index is out of range
index_error(lines, idx) == idx >= Len(lines)

\* build_context: what it returns, and the locals it computes on the way
build_context(lines, idx, w, db, nmap) ==
    LET around == _build_context_text_around(lines, idx, w)
        names == _build_context_names_dict(nmap, lines[idx + 1])
        description == _build_context_kag_description(db, speaker_key(lines, idx))
    IN [text_around |-> around, kag_description |-> description,
        value |-> context_blob(around, names, description)]

\* ------------------------------------------------------ build_context alone
LineChars == <<"0", "1", "2", "3", "4", "5", "6", "7", "8", "9", "A", "B", "C", "D">>
SpeakerTag == <<"s">>
SpeakerRecord == [description |-> <<"d">>, gender |-> <<"g">>]

\* a script of n lines, line k holding its own character; line p (if any) is a
\* speaker tag and line q (if any) is blank
ScriptOf(n, p, q) ==
    [k \in 1..n |-> IF k = p THEN <<SP>> \o SpeakerTag \o <<NL>>
                    ELSE IF k = q THEN <<SP, NL>>
                    ELSE <<LineChars[k], NL>>]

Scripts == {ScriptOf(n, p, q) : n \in 0..MaxKagLen, p \in 0..MaxKagLen, q \in {0, 2}}

KagDbs == UNION {[K -> {SpeakerRecord}] : K \in SUBSET {<<>>, SpeakerTag}}
NamesMaps == {<<>>, << <<<<"1">>, <<"N">>>> >>}

InitKag ==
    /\ input_lines = <<>> /\ line_num \in 0..MaxKagLen /\ result = <<>>
    /\ all_lines \in Scripts
    /\ line_num < Max(Len(all_lines), 1)
    /\ output = [exists |-> FALSE, lines |-> <<>>]
    /\ kag_enabled = TRUE
    /\ window_size \in 0..MaxWindow
    /\ kag_db \in KagDbs
    /\ names_map \in NamesMaps
    /\ context = <<>> /\ text_around = <<>> /\ kag_description = <<>>
    /\ resp_name = "" /\ prompt = PlainPrompt(<<>>) /\ i = 0
    /\ retry_count = DefaultRetryCount
    /\ response = <<>> /\ ret = <<>> /\ raw_translation = <<>> /\ stages = <<>>
    /\ log = <<>> /\ calls = 0 /\ decoded = <<>>
    /\ pc = "call"

\* build_context(all_lines, line_num) returns
build_context_returns ==
    /\ pc = "call"
    /\ ~index_error(all_lines, line_num)
    /\ LET c == build_context(all_lines, line_num, window_size, kag_db, names_map) IN
        /\ context' = c.value
        /\ text_around' = c.text_around
        /\ kag_description' = c.kag_description
    /\ pc' = "built"
    /\ UNCHANGED <<fileVars, kagVars, resp_name, prompt, i, retry_count, response,
                   ret, raw_translation, stages, log, calls, decoded>>

\* build_context(all_lines, line_num) fails at line 44
build_context_raises ==
    /\ pc = "call"
    /\ index_error(all_lines, line_num)
    /\ pc' = "raised"
    /\ UNCHANGED <<fileVars, kagVars, ctxVars, resp_name, prompt, i, retry_count,
                   response, ret, raw_translation, stages, log, calls, decoded>>

NextKag == build_context_returns \/ build_context_raises

SpecKag == InitKag /\ [][NextKag]_vars


\* ------------------------------------------------ translate_workflow.py
\* the translate template: it embeds the context and the line
translate_prompt(line, ctx) ==
    [template |-> "translate", context |-> ctx, line |-> line, marks |-> <<>>]

\* the edit template: it embeds the line it is given
edit_prompt(line) ==
    [template |-> "edit", context |-> <<>>, line |-> line, marks |-> <<>>]

\* ----------------------------------------------------- file_workflow.py
\* `line.strip() == ""`
is_blank(line) == strip(line) = <<>>

\* what is appended for a line that was translated: f"{...}\n"
translated_entry(text) == text \o <<NL>>

\* faulty variant: a whitespace-only line is normalised to a bare line terminator
blank_entry_stripped(line) == strip(line) \o <<NL>>

\* what is appended for a whitespace-only line
blank_entry(line) == line

\* lines as readlines() yields them: each ends in "\n", the last one may not
FullLines == {<<NL>>, <<SP, NL>>, <<"a", NL>>}
LastLines == FullLines \cup {<<"a">>}

InputFiles ==
    {<<>>} \cup UNION {
        {f \in [1..n -> LastLines] : \A k \in 1..(n - 1) : f[k] \in FullLines}
        : n \in 1..MaxLines}

\* the tables the run loaded from kag_data
LoadedDb == [k \in {SpeakerTag} |-> SpeakerRecord]
LoadedNames == << <<<<"a">>, <<"A">>>> >>

Init ==
    /\ input_lines \in InputFiles
    /\ all_lines = <<>> /\ line_num = 0 /\ result = <<>>
    /\ output = [exists |-> FALSE, lines |-> <<>>]
    /\ kag_enabled \in BOOLEAN
    /\ window_size = DefaultWindowSize
    /\ kag_db = LoadedDb
    /\ names_map = LoadedNames
    /\ context = <<>> /\ text_around = <<>> /\ kag_description = <<>>
    /\ resp_name = "" /\ prompt = PlainPrompt(<<>>) /\ i = 0
    /\ retry_count = DefaultRetryCount
    /\ response = <<>> /\ ret = <<>> /\ raw_translation = <<>> /\ stages = <<>>
    /\ log = <<>> /\ calls = 0 /\ decoded = <<>>
    /\ pc = "start"

\* translate_one_file, lines 79-86: read the input, set file_data
translate_one_file_read ==
    /\ pc = "start"
    /\ all_lines' = input_lines
    /\ line_num' = 0
    /\ result' = <<>>
    /\ pc' = "loop"
    /\ UNCHANGED <<input_lines, output, kagVars, ctxVars, resp_name, prompt, i,
                   retry_count, response, ret, raw_translation, stages, log, calls, decoded>>

\* _segregate_and_translate_lines, a whitespace-only line
pass_blank_line ==
    /\ pc = "loop"
    /\ line_num < Len(all_lines)
    /\ is_blank(all_lines[line_num + 1])
    /\ result' = Append(result, blank_entry(all_lines[line_num + 1]))
    /\ line_num' = line_num + 1
    /\ UNCHANGED <<input_lines, all_lines, output, pc, kagVars, ctxVars, resp_name,
                   prompt, i, retry_count, response, ret, raw_translation, stages, log,
                   calls, decoded>>

\* _translate_line, run_translate and _translate_with_llm up to the call of
\* generate_with_retry with resp_name "translation"
_translate_with_llm ==
    /\ pc = "loop"
    /\ line_num < Len(all_lines)
    /\ ~is_blank(all_lines[line_num + 1])
    /\ LET c == build_context(all_lines, line_num, window_size, kag_db, names_map)
           ctx == IF kag_enabled THEN c.value ELSE <<>>
       IN /\ context' = ctx
          /\ text_around' = IF kag_enabled THEN c.text_around ELSE text_around
          /\ kag_description' = IF kag_enabled THEN c.kag_description ELSE kag_description
          /\ prompt' = translate_prompt(strip(all_lines[line_num + 1]), ctx)
    /\ resp_name' = "translation"
    /\ i' = 0
    /\ retry_count' = DefaultRetryCount
    /\ log' = <<>>
    /\ calls' = 0
    /\ stages' = <<"translation">>
    /\ pc' = "retry"
    /\ UNCHANGED <<fileVars, kagVars, response, ret, raw_translation, decoded>>

\* faulty variant: _translate_with_llm returns raw_translation, the edit stage is skipped
return_raw_translation ==
    /\ pc = "returned"
    /\ resp_name = "translation"
    /\ result' = Append(result, translated_entry(ret))
    /\ line_num' = line_num + 1
    /\ pc' = "loop"
    /\ prompt' = PlainPrompt(<<>>) /\ i' = 0 /\ response' = <<>>
    /\ raw_translation' = <<>> /\ log' = <<>> /\ calls' = 0
    /\ UNCHANGED <<input_lines, all_lines, output, kagVars, ctxVars, resp_name,
                   retry_count, ret, stages, decoded>>

\* _translate_with_llm, line 74, and _edit_with_llm up to the call of
\* generate_with_retry with resp_name "edit"
_edit_with_llm ==
    /\ pc = "returned"
    /\ resp_name = "translation"
    /\ raw_translation' = ret
    /\ prompt' = edit_prompt(ret)
    /\ resp_name' = "edit"
    /\ i' = 0
    /\ retry_count' = DefaultRetryCount
    /\ log' = <<>>
    /\ calls' = 0
    /\ stages' = Append(stages, "edit")
    /\ pc' = "retry"
    /\ UNCHANGED <<fileVars, kagVars, ctxVars, response, ret, decoded>>

\* the edit stage returned: its value goes up through run_translate and
\* _translate_line and is appended with a line terminator; the locals of the
\* frames that returned are gone
append_translated ==
    /\ pc = "returned"
    /\ resp_name = "edit"
    /\ result' = Append(result, translated_entry(ret))
    /\ line_num' = line_num + 1
    /\ pc' = "loop"
    /\ prompt' = PlainPrompt(<<>>) /\ i' = 0 /\ response' = <<>>
    /\ raw_translation' = <<>> /\ log' = <<>> /\ calls' = 0
    /\ UNCHANGED <<input_lines, all_lines, output, kagVars, ctxVars, resp_name,
                   retry_count, ret, stages, decoded>>

\* faulty variant: the output file is opened while the lines are still being processed
open_output_early ==
    /\ pc = "loop"
    /\ ~output.exists
    /\ output' = [exists |-> TRUE, lines |-> <<>>]
    /\ UNCHANGED <<input_lines, all_lines, line_num, result, pc, kagVars, ctxVars,
                   resp_name, prompt, i, retry_count, response, ret,
                   raw_translation, stages, log, calls, decoded>>

\* translate_one_file, line 94: every line is done, open(output_path, "w")
open_output ==
    /\ pc = "loop"
    /\ line_num >= Len(all_lines)
    /\ output' = [exists |-> TRUE, lines |-> <<>>]
    /\ pc' = "write"
    /\ UNCHANGED <<input_lines, all_lines, line_num, result, kagVars, ctxVars,
                   resp_name, prompt, i, retry_count, response, ret,
                   raw_translation, stages, log, calls, decoded>>

\* translate_one_file, line 95: f.writelines(result) and the close
write_lines ==
    /\ pc = "write"
    /\ output' = [exists |-> TRUE, lines |-> result]
    /\ pc' = "done"
    /\ UNCHANGED <<input_lines, all_lines, line_num, result, kagVars, ctxVars,
                   resp_name, prompt, i, retry_count, response, ret,
                   raw_translation, stages, log, calls, decoded>>

\* the run ends early: llm.generate raises (nothing catches it), or the
\* process is stopped; the frames and their locals are gone, the lists of
\* translate_one_file are kept here to tell how far the run had come
interrupted ==
    /\ pc \in {"start", "loop", "retry", "returned", "write"}
    /\ pc' = "raised"
    /\ context' = <<>> /\ text_around' = <<>> /\ kag_description' = <<>>
    /\ resp_name' = "" /\ prompt' = PlainPrompt(<<>>) /\ i' = 0
    /\ response' = <<>> /\ ret' = <<>> /\ raw_translation' = <<>>
    /\ stages' = <<>> /\ log' = <<>> /\ calls' = 0
    /\ UNCHANGED <<fileVars, kagVars, retry_count, decoded>>

Next ==
    \/ translate_one_file_read
    \/ pass_blank_line
    \/ _translate_with_llm
    \/ generate_with_retry_attempt
    \/ generate_with_retry_exhausted
    \/ _edit_with_llm
    \/ append_translated
    \/ open_output
    \/ write_lines
    \/ interrupted

Spec == Init /\ [][Next]_vars


\* ================================================================ claims

\* C1: at every point of a run the list built so far has one entry per line
\* already processed, in input order; the entry of a whitespace-only line is
\* that line exactly as read, the entry of any other line is a non-blank text
\* ending in a line terminator; once all lines are done the list is as long as
\* the input, and it is what the output file holds.
C1_LinesPreserved ==
    /\ Len(result) = line_num
    /\ Len(result) <= Len(all_lines)
    /\ \A k \in 1..Len(result) :
        IF is_blank(all_lines[k])
        THEN result[k] = input_lines[k]
        ELSE ~is_blank(result[k]) /\ result[k][Len(result[k])] = NL
    /\ pc \in {"write", "done"} => Len(result) = Len(input_lines)
    /\ pc = "done" => output.lines = result /\ Len(output.lines) = Len(input_lines)

C1_Witness ==
    /\ pc = "done"
    /\ Len(input_lines) = 2
    /\ input_lines[1] = <<SP, NL>>
    /\ ~is_blank(input_lines[2])
    /\ output.lines[1] = <<SP, NL>>
    /\ Len(output.lines) = 2

\* C2: generate_with_retry never calls generate after a non-empty result: every
\* printed response but the last is empty, and when the last one (call k) is
\* non-empty the wrapper has returned it, postprocessed, after exactly k calls,
\* k <= retry_count.
C2_StopsAtFirstNonEmpty ==
    /\ calls <= retry_count
    /\ \A k \in 1..(Len(log) - 1) : log[k][2] = <<>>
    /\ (log # <<>> /\ log[Len(log)][2] # <<>>) =>
        /\ pc = "returned"
        /\ ret = log[Len(log)][2]
        /\ ret = strip(split_first(strip(decoded)))
        /\ calls = Len(log)

C2_Witness ==
    /\ pc = "returned"
    /\ calls = 3
    /\ Len(log) = 3
    /\ log[1][2] = <<>> /\ log[2][2] = <<>>
    /\ decoded = <<"a", NL, "a">>
    /\ ret = <<"a">>

\* C3: when every call handed back an empty postprocessed result,
\* generate_with_retry(retry_count = n) returns the sentinel after exactly n
\* calls; it never calls more than n times, and it raises only when a call of
\* generate itself raised instead of handing back a result.
C3_ExhaustionSentinel ==
    /\ calls <= retry_count
    /\ (pc = "returned" /\ \A k \in 1..Len(log) : log[k][2] = <<>>) =>
        /\ ret = Sentinel
        /\ calls = retry_count
        /\ Len(log) = retry_count
    /\ pc = "raised" => Len(log) < calls
    /\ (pc = "retry" /\ i >= retry_count) => calls = retry_count

C3_Witness ==
    /\ pc = "returned"
    /\ retry_count = 3
    /\ calls = 3
    /\ \A k \in 1..Len(log) : log[k][2] = <<>>
    /\ ret = Sentinel

\* C4: the entry written for a non-blank input line holds no embedded line
\* break and ends in exactly one line terminator.
C4_SingleLineEntries ==
    \A k \in 1..Len(result) :
        ~is_blank(all_lines[k]) =>
            /\ Len(result[k]) >= 2
            /\ result[k][Len(result[k])] = NL
            /\ \A j \in 1..(Len(result[k]) - 1) : ~IsLineBreak(result[k][j])

\* C5: when the scene excerpt is empty, build_context returns normally and
\* returns the empty string.
C5_EmptyExcerptEmptyContext ==
    (/\ pc # "call"
     /\ join(PySlice(all_lines, Max(0, line_num - window_size),
                     Min(Len(all_lines), line_num + window_size + 1))) = <<>>)
    => (pc = "built" /\ context = <<>>)

\* C6: the scene excerpt is the header followed by the lines at positions
\* max(0, idx-w) .. min(len, idx+w+1)-1, each exactly once and in script order,
\* and by nothing else.
C6_WindowExcerpt ==
    pc = "built" =>
        LET lo == IF line_num - window_size > 0 THEN line_num - window_size ELSE 0
            hi == IF line_num + window_size + 1 < Len(all_lines)
                  THEN line_num + window_size + 1 ELSE Len(all_lines)
            body == SubSeq(text_around, Len(SceneHeader) + 1, Len(text_around))
            \* offset of line k (0-based, lo <= k <= hi) inside body
            off[k \in lo..hi] ==
                IF k = lo THEN 0 ELSE off[k - 1] + Len(all_lines[k])
        IN /\ SubSeq(text_around, 1, Len(SceneHeader)) = SceneHeader
           /\ lo < hi
           /\ Len(body) = off[hi]
           /\ \A k \in lo..(hi - 1) :
                SubSeq(body, off[k] + 1, off[k + 1]) = all_lines[k + 1]

C6_Witness ==
    /\ pc = "built"
    /\ Len(all_lines) = 10
    /\ line_num = 2
    /\ window_size = 4
    /\ \A k \in 1..10 : all_lines[k] = <<LineChars[k], NL>>
    /\ text_around = SceneHeader \o <<"0", NL, "1", NL, "2", NL, "3", NL,
                                      "4", NL, "5", NL, "6", NL>>

\* C7: for the line at index 0 the speaker description is the narration
\* default, whatever the speaker database holds.
C7_IndexZeroNarration ==
    (pc = "built" /\ line_num = 0) => kag_description = Narration

\* C8: a non-blank line goes through translate and then edit: the edit call is
\* the second call started for the line, it is started from the returned
\* translate call with the text that call returned in its prompt (the sentinel
\* included), and the entry appended for the line is the edit call's return
\* value.
C8_TwoStagesInOrder ==
    /\ [](/\ (pc \in {"retry", "returned"} /\ resp_name = "translation") =>
                /\ stages = <<"translation">>
                /\ prompt.template = "translate"
                /\ prompt.line = strip(all_lines[line_num + 1])
          /\ (pc \in {"retry", "returned"} /\ resp_name = "edit") =>
                /\ stages = <<"translation", "edit">>
                /\ prompt.template = "edit"
                /\ prompt.line = raw_translation
                /\ raw_translation # <<>>
          /\ (pc = "loop" /\ line_num > 0 /\ ~is_blank(all_lines[line_num])) =>
                /\ stages = <<"translation", "edit">>
                /\ resp_name = "edit"
                /\ result[line_num] = ret \o <<NL>>)
    /\ [][/\ (resp_name' = "edit" /\ resp_name # "edit") =>
                /\ pc = "returned" /\ resp_name = "translation"
                /\ prompt'.line = ret /\ raw_translation' = ret
                /\ pc' = "retry" /\ i' = 0
          /\ Len(result') > Len(result) /\ ~is_blank(all_lines[line_num + 1]) =>
                /\ pc = "returned" /\ resp_name = "edit"
                /\ result' = Append(result, ret \o <<NL>>)]_vars

C8_Witness ==
    /\ pc = "retry"
    /\ resp_name = "edit"
    /\ raw_translation = Sentinel
    /\ prompt.line = Sentinel
    /\ stages = <<"translation", "edit">>

\* C9 as stated: a model response whose first line is blank and whose later
\* lines hold text is a failed attempt.
C9_BlankFirstLineFails ==
    (/\ pc \in {"retry", "returned"}
     /\ calls > 0
     /\ is_blank(split_first(decoded))
     /\ ~AllSpace(decoded))
    => response = <<>>

\* C9 amended: the response is stripped as a whole before it is cut to its
\* first line, so an attempt fails exactly when the whole response is
\* whitespace; any other response, a blank first line included, ends the loop
\* with a non-empty result.
C9_WhitespaceOnlyFails ==
    (pc \in {"retry", "returned"} /\ calls > 0) =>
        /\ (response = <<>>) <=> AllSpace(decoded)
        /\ AllSpace(decoded) => (i = calls /\ (pc = "returned" => ret = Sentinel))
        /\ ~AllSpace(decoded) => (pc = "returned" /\ ret = response)

C9_Witness ==
    /\ pc = "returned"
    /\ decoded = <<NL, "a">>
    /\ ret = <<"a">>
    /\ calls = 1

\* C10: while a line of the input is still unprocessed the output file does
\* not exist and holds nothing; when it exists it holds nothing yet or the
\* whole result.
C10_NoPartialOutput ==
    /\ Len(result) < Len(input_lines) => (~output.exists /\ output.lines = <<>>)
    /\ output.exists =>
        /\ pc \in {"write", "done", "raised"}
        /\ Len(result) = Len(input_lines)
        /\ output.lines \in {<<>>, result}
    /\ pc = "done" => output.exists

C10_Witness ==
    /\ pc = "raised"
    /\ Len(result) = 1
    /\ Len(input_lines) = 2
    /\ ~is_blank(input_lines[1])
    /\ ~output.exists

====
